---- MODULE Spec2Model ----
(***************************************************************************)
(* The service of one factory component of relm4, as set up by             *)
(* FactoryBuilder::new and FactoryBuilder::launch (factory/builder.rs),    *)
(* and the shutdown receiver handed to its commands                        *)
(* (shutdown/receiver.rs).                                                 *)
(*                                                                         *)
(* An Option<T> is a sequence of length at most one: None is << >> and     *)
(* Some(x) is <<x>>.                                                       *)
(***************************************************************************)
EXTENDS Integers, Sequences, FiniteSets, TLC

\* ---------------------------------------------------------------- bounds
\* Input messages the channel accepts over a whole run.
MaxSends == 2
\* Input messages the channel accepts over a run of FlowSpec.
MaxFlowSends == 3
\* Inputs the model sends to itself, and Outputs it emits, inside init_model.
MaxInit == 2
\* Clones of death_recipient over the whole run: those the loop makes for
\* the commands it spawns, and those the commands make of their own.
MaxRecv == 2

None == << >>
Some(x) == <<x>>

\* ------------------------------------------------- the pluggable component
\* The counter component: Increment and Decrement change the value and
\* emit ValueChanged(value); Fetch requests a background command, whose
\* result Fetched the model counts.
Inputs == {"Increment", "Decrement", "Fetch"}

ValueChanged(v) == [tag |-> "ValueChanged", v |-> v]

ParentX(v) == [tag |-> "X", v |-> v]

InitModel == [value |-> 0, fetched |-> 0]

\* What init_model may send to the model itself: any Increments and
\* Decrements, up to MaxInit of them.
InitInputs ==
    UNION {[1 .. n -> {"Increment", "Decrement"}] : n \in 0 .. MaxInit}

\* What init_model may emit: a beginning of the announcements
\* ValueChanged(100), ValueChanged(0), ValueChanged(200), ...
InitOutputs ==
    {[i \in 1 .. n |-> ValueChanged(IF i % 2 = 0 THEN 0 ELSE 50 * (i + 1))] :
        n \in 0 .. MaxInit}

update_with_view(value, message) ==
    CASE message = "Increment" ->
            [data |-> [value EXCEPT !.value = @ + 1],
             out |-> <<ValueChanged(value.value + 1)>>, command |-> None]
      [] message = "Decrement" ->
            [data |-> [value EXCEPT !.value = @ - 1],
             out |-> <<ValueChanged(value.value - 1)>>, command |-> None]
      [] OTHER ->
            [data |-> value, out |-> << >>, command |-> Some("fetch")]

update_cmd_with_view(value, message) ==
    [data |-> [value EXCEPT !.fetched = @ + 1], out |-> << >>]

\* The transform given to launch: a value of zero is swallowed, any other
\* value is forwarded to the parent as X(value).
transform(msg) ==
    IF msg.v = 0 THEN None ELSE Some(ParentX(msg.v))

\* ------------------------------------------------------------------ state
VARIABLES
    pc,               \* position of the service's loop
    message,          \* what the select resolved with, held by the branch body
    borrowed,         \* outstanding borrow_mut()s of runtime_data made by the loop
    data,             \* the model: the counter's value and the results fetched
    input_rx,         \* Input channel: messages queued
    input_tx,         \* the handle's Input sender: TRUE while the callers hold it
    output_rx,        \* Output channel: messages queued
    output_tx,        \* TRUE while the loop's Output sender is alive
    cmd_rx,           \* CommandOutput channel: messages queued
    notifier,         \* TRUE while a send on the zero-capacity notifier channel blocks
    burn_recipient,   \* the one-shot channel: "empty", "sent", "closed", "taken"
    burn_notifier,    \* TRUE while the destroy callback (owner of the sender) exists
    runtime_id,       \* the slot shared by the handle and the destroy callback
    death_notifier,   \* shutdown sender: "alive", "shutdown", "dropped"
    receiver,         \* ShutdownReceivers: 0 is death_recipient, the others clones
    cmd,              \* commands spawned by the loop, by number
    forwarder,        \* the forwarding task: "running" or "done"
    parent_rx,        \* the parent's queue, fed by forward_sender
    parent_alive,     \* TRUE while the parent's receiver exists
    sent,             \* history: Inputs the channel accepted, in order
    handled,          \* history: Inputs given to update_with_view, in order
    emitted,          \* history: Outputs sent by the model, in order
    lost,             \* history: an Input was sent after the loop's receiver was gone
    calls             \* history: counts of shutdown, id.remove by the loop,
                      \*          one-shot sends and wake-ups of each receiver

vars == <<pc, message, borrowed, data, input_rx, input_tx, output_rx, output_tx,
          cmd_rx, notifier, burn_recipient, burn_notifier, runtime_id,
          death_notifier, receiver, cmd, forwarder, parent_rx, parent_alive,
          sent, handled, emitted, lost, calls>>

Receivers == 0 .. MaxRecv
Cmds == 1 .. MaxRecv

\* The next unused receiver number, 0 when there is none.
Fresh(rs) ==
    IF \E n \in Cmds : rs[n] = "none"
    THEN CHOOSE n \in Cmds : rs[n] = "none" /\ \A k \in Cmds : k < n => rs[k] # "none"
    ELSE 0

\* The loop's task exists: it has neither returned nor been removed.
LoopAlive == pc \notin {"terminated", "removed"}

\* The loop's task is not running a branch body, so the main context can run
\* something else: the service, the forwarding task, the destroy callback and
\* the handle all live on the one main context (spawn_local).
LoopSuspended == pc \in {"select", "terminated", "removed"}

\* {Running} -> {ShuttingDown} -> {Terminated} of the loop.
LoopState ==
    CASE pc \in {"select", "input", "cmd", "notifier"} -> "Running"
      [] pc \in {"burn_shutdown", "burn_broadcast", "burn_remove"} -> "ShuttingDown"
      [] pc = "terminated" -> "Terminated"
      [] pc \in {"new", "built"} -> "NotLaunched"
      [] OTHER -> "Removed"

Init ==
    /\ pc = "select"
    /\ message = None
    /\ borrowed = 0
    /\ data = InitModel
    /\ input_rx = << >>
    /\ input_tx = TRUE
    /\ output_rx = << >>
    /\ output_tx = TRUE
    /\ cmd_rx = << >>
    /\ notifier = FALSE
    /\ burn_recipient = "empty"
    /\ burn_notifier = TRUE
    /\ runtime_id = Some("id")
    /\ death_notifier = "alive"
    /\ receiver = [r \in Receivers |-> IF r = 0 THEN "held" ELSE "none"]
    /\ cmd = [c \in Cmds |-> "none"]
    /\ forwarder = "running"
    /\ parent_rx = << >>
    /\ parent_alive = TRUE
    /\ sent = << >>
    /\ handled = << >>
    /\ emitted = << >>
    /\ lost = FALSE
    /\ calls = [shutdown |-> 0, remove |-> 0, burn |-> 0,
                wake |-> [r \in Receivers |-> 0]]


\* FactoryBuilder::new has made the Input and Output channels and is about
\* to call init_model; nothing of launch exists yet (its channels are shown
\* as they will be made).
BuildInit ==
    /\ pc = "new"
    /\ message = None
    /\ borrowed = 0
    /\ data = InitModel
    /\ input_rx = << >>
    /\ input_tx = TRUE
    /\ output_rx = << >>
    /\ output_tx = TRUE
    /\ cmd_rx = << >>
    /\ notifier = FALSE
    /\ burn_recipient = "empty"
    /\ burn_notifier = TRUE
    /\ runtime_id = Some("id")
    /\ death_notifier = "alive"
    /\ receiver = [r \in Receivers |-> IF r = 0 THEN "held" ELSE "none"]
    /\ cmd = [c \in Cmds |-> "none"]
    /\ forwarder = "unspawned"
    /\ parent_rx = << >>
    /\ parent_alive = TRUE
    /\ sent = << >>
    /\ handled = << >>
    /\ emitted = << >>
    /\ lost = FALSE
    /\ calls = [shutdown |-> 0, remove |-> 0, burn |-> 0,
                wake |-> [r \in Receivers |-> 0]]

\* ------------------------------------------------------------- channels
\* Variant of InputSenders: the loop's task holds no Input sender.
InputSendersOfCallers == IF input_tx THEN 1 ELSE 0

\* Number of live Input senders: the handle's, and the clone input_tx_
\* owned by the loop's task.
InputSenders == (IF input_tx THEN 1 ELSE 0) + (IF LoopAlive THEN 1 ELSE 0)

\* recv() on the Input channel yields None once it is empty and closed.
InputClosed == input_rx = << >> /\ InputSenders = 0

\* Number of live CommandOutput senders: cmd_tx, owned by the loop's task,
\* and the clone held by each running command.
CmdSenders ==
    (IF LoopAlive THEN 1 ELSE 0) + Cardinality({c \in Cmds : cmd[c] = "running"})

\* recv() on the CommandOutput channel yields None once it is empty and closed.
CmdClosed == cmd_rx = << >> /\ CmdSenders = 0

\* What the model sends on output_tx reaches the Output queue while the
\* forwarding task still owns output_rx; afterwards the send fails quietly.
Emit(out) == IF forwarder = "running" THEN output_rx \o out ELSE output_rx

\* async_broadcast recv() of receiver r: the message shutdown() broadcast,
\* else Closed once the sender is gone, else pending.
Recv(r) ==
    CASE death_notifier = "shutdown" -> "Ok"
      [] death_notifier = "dropped" -> "Closed"
      [] OTHER -> "Pending"

\* Variant of WaitReady: wait() retries until recv() returns Ok.
WaitReadyOkOnly(r) == Recv(r) = "Ok"

\* Variant of WaitReady: wait() resolves without awaiting recv().
WaitReadyAtOnce(r) == TRUE

\* ShutdownReceiver::wait resolves on whatever recv() returns, Ok or Err.
WaitReady(r) == Recv(r) # "Pending"

\* Variant of Resolved: wait() leaves the receiver awaiting recv() again.
ResolvedKeeps(rs, r) == rs

\* A receiver that wait(self) has resolved is consumed.
Resolved(rs, r) == [rs EXCEPT ![r] = "woken"]

\* ShutdownReceiver::clone: the new receiver is in the state of the original.
Clone(rs, src, new) == [rs EXCEPT ![new] = rs[src]]

\* Everything the loop's task owns is dropped with it, on return and on
\* removal alike: the three receivers, the one-shot recipient, the shutdown
\* sender and receiver, and the Output sender.
DropTask ==
    /\ input_rx' = << >>
    /\ cmd_rx' = << >>
    /\ notifier' = FALSE
    /\ output_tx' = FALSE
    /\ death_notifier' = IF death_notifier = "alive" THEN "dropped" ELSE death_notifier
    /\ receiver' = [receiver EXCEPT ![0] = "dropped"]

\* The Input the Input branch holds and has not yet given to the model.
InHand == IF pc = "input" THEN message ELSE << >>

\* Receiver numbers in use, or needed by a Fetch that is still to be handled.
Claimed ==
    LET queued == InHand \o input_rx
    IN  Cardinality({r \in Cmds : receiver[r] # "none"})
            + Cardinality({i \in DOMAIN queued : queued[i] = "Fetch"})

\* The branches whose future is ready when the select is polled.
ReadySet ==
    {b \in {"input", "cmd", "notifier", "burn"} :
        \/ b = "input" /\ (input_rx # << >> \/ InputClosed)
        \/ b = "cmd" /\ (cmd_rx # << >> \/ CmdClosed)
        \/ b = "notifier" /\ notifier
        \/ b = "burn" /\ burn_recipient \in {"sent", "closed"}}

\* futures::select! runs one of the ready branches, picked pseudo-randomly.
Select(rs) == rs

\* ------------------------------------------------------ new and launch
\* FactoryBuilder::new: init_model is given both senders and may use them;
\* init_root; the builder is returned.
New(ins, outs) ==
    /\ pc = "new"
    /\ input_rx' = input_rx \o ins
    /\ sent' = sent \o ins
    /\ output_rx' = output_rx \o outs
    /\ emitted' = emitted \o outs
    /\ pc' = "built"
    /\ UNCHANGED <<message, borrowed, data, input_tx, output_tx, cmd_rx, notifier,
                   burn_recipient, burn_notifier, runtime_id, death_notifier,
                   receiver, cmd, forwarder, parent_rx, parent_alive, handled,
                   lost, calls>>

\* Variant of Launch: launch makes new channels for the tasks it spawns.
LaunchFreshChannels ==
    /\ pc = "built"
    /\ forwarder' = "running"
    /\ input_rx' = << >>
    /\ output_rx' = << >>
    /\ pc' = "select"
    /\ UNCHANGED <<message, borrowed, data, input_tx, output_tx, cmd_rx,
                   notifier, burn_recipient, burn_notifier, runtime_id,
                   death_notifier, receiver, cmd, parent_rx, parent_alive, sent,
                   handled, emitted, lost, calls>>

\* FactoryBuilder::launch: the builder's channel ends are moved into the
\* forwarding task and the service, which are spawned on the main context.
Launch ==
    /\ pc = "built"
    /\ forwarder' = "running"
    /\ pc' = "select"
    /\ UNCHANGED <<message, borrowed, data, input_rx, input_tx, output_rx, output_tx,
                   cmd_rx, notifier, burn_recipient, burn_notifier, runtime_id,
                   death_notifier, receiver, cmd, parent_rx, parent_alive, sent,
                   handled, emitted, lost, calls>>

\* ------------------------------------------------------- the loop's task
\* Variant of SelectInput: the newest Input is taken instead of the oldest.
SelectInputLast ==
    /\ pc = "select"
    /\ "input" \in Select(ReadySet)
    /\ message' = IF input_rx # << >> THEN Some(input_rx[Len(input_rx)]) ELSE None
    /\ input_rx' = IF input_rx # << >> THEN SubSeq(input_rx, 1, Len(input_rx) - 1)
                   ELSE input_rx
    /\ borrowed' = IF input_rx # << >> THEN borrowed + 1 ELSE borrowed
    /\ pc' = "input"
    /\ UNCHANGED <<data, input_tx, output_rx, output_tx, cmd_rx, notifier,
                   burn_recipient, burn_notifier, runtime_id, death_notifier,
                   receiver, cmd, forwarder, parent_rx, parent_alive, sent,
                   handled, emitted, lost, calls>>

\* message = input => { if let Some(message) = message { borrow_mut() ...
SelectInput ==
    /\ pc = "select"
    /\ "input" \in Select(ReadySet)
    /\ message' = IF input_rx # << >> THEN Some(Head(input_rx)) ELSE None
    /\ input_rx' = IF input_rx # << >> THEN Tail(input_rx) ELSE input_rx
    /\ borrowed' = IF input_rx # << >> THEN borrowed + 1 ELSE borrowed
    /\ pc' = "input"
    /\ UNCHANGED <<data, input_tx, output_rx, output_tx, cmd_rx, notifier,
                   burn_recipient, burn_notifier, runtime_id, death_notifier,
                   receiver, cmd, forwarder, parent_rx, parent_alive, sent,
                   handled, emitted, lost, calls>>

\* Variant of BodyInput: the borrow of the model outlives the branch.
BodyInputKeepsBorrow ==
    /\ pc = "input"
    /\ IF message = None
       THEN UNCHANGED <<data, output_rx, receiver, cmd, handled, emitted>>
       ELSE LET r == update_with_view(data, message[1])
                c == Fresh(receiver)
            IN  /\ data' = r.data
                /\ handled' = Append(handled, message[1])
                /\ output_rx' = Emit(r.out)
                /\ emitted' = emitted \o r.out
                /\ IF r.command # None /\ c # 0
                   THEN /\ receiver' = Clone(receiver, 0, c)
                        /\ cmd' = [cmd EXCEPT ![c] = "running"]
                   ELSE UNCHANGED <<receiver, cmd>>
    /\ message' = None
    /\ pc' = "select"
    /\ UNCHANGED <<borrowed, input_rx, input_tx, output_tx, cmd_rx, notifier,
                   burn_recipient, burn_notifier, runtime_id, death_notifier,
                   forwarder, parent_rx, parent_alive, sent, lost, calls>>

\* ... update_with_view(..); spawn the command it asks for } }
BodyInput ==
    /\ pc = "input"
    /\ IF message = None
       THEN UNCHANGED <<borrowed, data, output_rx, receiver, cmd, handled, emitted>>
       ELSE LET r == update_with_view(data, message[1])
                c == Fresh(receiver)
            IN  /\ data' = r.data
                /\ handled' = Append(handled, message[1])
                /\ output_rx' = Emit(r.out)
                /\ emitted' = emitted \o r.out
                /\ IF r.command # None /\ c # 0
                   THEN /\ receiver' = Clone(receiver, 0, c)
                        /\ cmd' = [cmd EXCEPT ![c] = "running"]
                   ELSE UNCHANGED <<receiver, cmd>>
                /\ borrowed' = borrowed - 1
    /\ message' = None
    /\ pc' = "select"
    /\ UNCHANGED <<input_rx, input_tx, output_tx, cmd_rx, notifier, burn_recipient,
                   burn_notifier, runtime_id, death_notifier, forwarder, parent_rx,
                   parent_alive, sent, lost, calls>>

\* Variant of SelectCmd: the Input that was ready in the same poll is lost.
SelectCmdDropsInput ==
    /\ pc = "select"
    /\ "cmd" \in Select(ReadySet)
    /\ message' = Some(Head(cmd_rx))
    /\ cmd_rx' = Tail(cmd_rx)
    /\ input_rx' = IF input_rx # << >> THEN Tail(input_rx) ELSE input_rx
    /\ borrowed' = borrowed + 1
    /\ pc' = "cmd"
    /\ UNCHANGED <<data, input_tx, output_rx, output_tx, notifier,
                   burn_recipient, burn_notifier, runtime_id, death_notifier,
                   receiver, cmd, forwarder, parent_rx, parent_alive, sent,
                   handled, emitted, lost, calls>>

\* message = cmd => { if let Some(message) = message { borrow_mut() ...
SelectCmd ==
    /\ pc = "select"
    /\ "cmd" \in Select(ReadySet)
    /\ message' = IF cmd_rx # << >> THEN Some(Head(cmd_rx)) ELSE None
    /\ cmd_rx' = IF cmd_rx # << >> THEN Tail(cmd_rx) ELSE cmd_rx
    /\ borrowed' = IF cmd_rx # << >> THEN borrowed + 1 ELSE borrowed
    /\ pc' = "cmd"
    /\ UNCHANGED <<data, input_rx, input_tx, output_rx, output_tx, notifier,
                   burn_recipient, burn_notifier, runtime_id, death_notifier,
                   receiver, cmd, forwarder, parent_rx, parent_alive, sent,
                   handled, emitted, lost, calls>>

\* Variant of BodyCmd: the CommandOutput branch spawns a command too.
BodyCmdSpawns ==
    /\ pc = "cmd"
    /\ LET r == update_cmd_with_view(data, message[1])
           c == Fresh(receiver)
       IN  /\ data' = r.data
           /\ output_rx' = Emit(r.out)
           /\ emitted' = emitted \o r.out
           /\ IF c # 0
              THEN /\ receiver' = Clone(receiver, 0, c)
                   /\ cmd' = [cmd EXCEPT ![c] = "running"]
              ELSE UNCHANGED <<receiver, cmd>>
    /\ borrowed' = borrowed - 1
    /\ message' = None
    /\ pc' = "select"
    /\ UNCHANGED <<input_rx, input_tx, output_tx, cmd_rx, notifier, burn_recipient,
                   burn_notifier, runtime_id, death_notifier,
                   forwarder, parent_rx, parent_alive, sent, handled, lost, calls>>

\* ... update_cmd_with_view(..) } }
BodyCmd ==
    /\ pc = "cmd"
    /\ IF message = None
       THEN UNCHANGED <<borrowed, data, output_rx, emitted>>
       ELSE LET r == update_cmd_with_view(data, message[1])
            IN  /\ data' = r.data
                /\ output_rx' = Emit(r.out)
                /\ emitted' = emitted \o r.out
                /\ borrowed' = borrowed - 1
    /\ message' = None
    /\ pc' = "select"
    /\ UNCHANGED <<input_rx, input_tx, output_tx, cmd_rx, notifier, burn_recipient,
                   burn_notifier, runtime_id, death_notifier, receiver, cmd,
                   forwarder, parent_rx, parent_alive, sent, handled, lost, calls>>

\* Variant of SelectNotifier: the send stays in the channel after the loop
\* has received it.
SelectNotifierKeeps ==
    /\ pc = "select"
    /\ "notifier" \in Select(ReadySet)
    /\ borrowed' = borrowed + 1
    /\ pc' = "notifier"
    /\ UNCHANGED <<message, data, input_rx, input_tx, output_rx, output_tx, cmd_rx,
                   notifier, burn_recipient, burn_notifier, runtime_id, death_notifier,
                   receiver, cmd, forwarder, parent_rx, parent_alive, sent,
                   handled, emitted, lost, calls>>

\* _ = notifier => { borrow_mut() ...
SelectNotifier ==
    /\ pc = "select"
    /\ "notifier" \in Select(ReadySet)
    /\ notifier' = FALSE
    /\ borrowed' = borrowed + 1
    /\ pc' = "notifier"
    /\ UNCHANGED <<message, data, input_rx, input_tx, output_rx, output_tx, cmd_rx,
                   burn_recipient, burn_notifier, runtime_id, death_notifier,
                   receiver, cmd, forwarder, parent_rx, parent_alive, sent,
                   handled, emitted, lost, calls>>

\* Variant of BodyNotifier: the branch returns from the task.
BodyNotifierReturns ==
    /\ pc = "notifier"
    /\ DropTask
    /\ borrowed' = borrowed - 1
    /\ pc' = "terminated"
    /\ UNCHANGED <<message, data, input_tx, output_rx, burn_recipient,
                   burn_notifier, runtime_id, cmd, forwarder, parent_rx,
                   parent_alive, sent, handled, emitted, lost, calls>>

\* ... update_view(..) }: the counter's view is redrawn, the model is untouched.
BodyNotifier ==
    /\ pc = "notifier"
    /\ borrowed' = borrowed - 1
    /\ pc' = "select"
    /\ UNCHANGED <<message, data, input_rx, input_tx, output_rx, output_tx, cmd_rx,
                   notifier, burn_recipient, burn_notifier, runtime_id,
                   death_notifier, receiver, cmd, forwarder, parent_rx,
                   parent_alive, sent, handled, emitted, lost, calls>>

\* Variant of SelectBurn: the broadcast is fired on entering the branch,
\* ahead of the model's shutdown.
SelectBurnBroadcasts ==
    /\ pc = "select"
    /\ "burn" \in Select(ReadySet)
    /\ message' = IF burn_recipient = "sent" THEN Some("id") ELSE None
    /\ burn_recipient' = "taken"
    /\ death_notifier' = "shutdown"
    /\ borrowed' = borrowed + 1
    /\ pc' = "burn_shutdown"
    /\ UNCHANGED <<data, input_rx, input_tx, output_rx, output_tx, cmd_rx, notifier,
                   burn_notifier, runtime_id, receiver, cmd,
                   forwarder, parent_rx, parent_alive, sent, handled, emitted, lost, calls>>

\* id = burn_notice => { borrow_mut() ...: Ok(id) when an identity was sent,
\* Err when the sender was dropped.
SelectBurn ==
    /\ pc = "select"
    /\ "burn" \in Select(ReadySet)
    /\ message' = IF burn_recipient = "sent" THEN Some("id") ELSE None
    /\ burn_recipient' = "taken"
    /\ borrowed' = borrowed + 1
    /\ pc' = "burn_shutdown"
    /\ UNCHANGED <<data, input_rx, input_tx, output_rx, output_tx, cmd_rx, notifier,
                   burn_notifier, runtime_id, death_notifier, receiver, cmd,
                   forwarder, parent_rx, parent_alive, sent, handled, emitted, lost, calls>>

\* model.shutdown(&mut widgets, output_tx): the counter emits nothing, and
\* the Output sender moved into the call is dropped there.
BurnShutdown ==
    /\ pc = "burn_shutdown"
    /\ calls' = [calls EXCEPT !.shutdown = @ + 1]
    /\ output_tx' = FALSE
    /\ pc' = "burn_broadcast"
    /\ UNCHANGED <<message, borrowed, data, input_rx, input_tx, output_rx, cmd_rx,
                   notifier, burn_recipient, burn_notifier, runtime_id,
                   death_notifier, receiver, cmd, forwarder, parent_rx,
                   parent_alive, sent, handled, emitted, lost>>

\* death_notifier.shutdown()
BurnBroadcast ==
    /\ pc = "burn_broadcast"
    /\ death_notifier' = "shutdown"
    /\ pc' = "burn_remove"
    /\ UNCHANGED <<message, borrowed, data, input_rx, input_tx, output_rx, output_tx,
                   cmd_rx, notifier, burn_recipient, burn_notifier, runtime_id,
                   receiver, cmd, forwarder, parent_rx, parent_alive, sent,
                   handled, emitted, lost, calls>>

\* Variant of BurnRemove: the branch falls through to the next iteration
\* instead of returning.
BurnRemoveNoReturn ==
    /\ pc = "burn_remove"
    /\ calls' = IF message # None THEN [calls EXCEPT !.remove = @ + 1] ELSE calls
    /\ borrowed' = borrowed - 1
    /\ message' = None
    /\ pc' = "select"
    /\ UNCHANGED <<data, input_rx, input_tx, output_rx, output_tx, cmd_rx, notifier,
                   burn_recipient, burn_notifier, runtime_id, death_notifier,
                   receiver, cmd, forwarder, parent_rx, parent_alive, sent,
                   handled, emitted, lost>>

\* Variant of BurnRemove: an identity is removed whatever the one-shot gave.
BurnRemoveAlways ==
    /\ pc = "burn_remove"
    /\ calls' = [calls EXCEPT !.remove = @ + 1]
    /\ DropTask
    /\ borrowed' = borrowed - 1
    /\ message' = None
    /\ pc' = "terminated"
    /\ UNCHANGED <<data, input_tx, output_rx, burn_recipient, burn_notifier,
                   runtime_id, cmd, forwarder, parent_rx, parent_alive, sent,
                   handled, emitted, lost>>

\* if let Ok(id) = id { id.remove(); } return }
BurnRemove ==
    /\ pc = "burn_remove"
    /\ calls' = IF message # None THEN [calls EXCEPT !.remove = @ + 1] ELSE calls
    /\ DropTask
    /\ borrowed' = borrowed - 1
    /\ message' = None
    /\ pc' = "terminated"
    /\ UNCHANGED <<data, input_tx, output_rx, burn_recipient, burn_notifier,
                   runtime_id, cmd, forwarder, parent_rx, parent_alive, sent,
                   handled, emitted, lost>>


\* ------------------------------------------------------ the forwarding task
\* Variant of Forward: an Output the transform swallows ends the task.
ForwardStopsOnNone ==
    /\ LoopSuspended
    /\ forwarder = "running"
    /\ output_rx # << >>
    /\ LET new_msg == transform(Head(output_rx))
       IN  IF new_msg # None /\ parent_alive
           THEN /\ parent_rx' = Append(parent_rx, new_msg[1])
                /\ output_rx' = Tail(output_rx)
                /\ UNCHANGED forwarder
           ELSE /\ forwarder' = "done"
                /\ output_rx' = << >>
                /\ UNCHANGED parent_rx
    /\ UNCHANGED <<pc, message, borrowed, data, input_rx, input_tx, output_tx, cmd_rx,
                   notifier, burn_recipient, burn_notifier, runtime_id,
                   death_notifier, receiver, cmd, parent_alive, sent, handled,
                   emitted, lost, calls>>

\* Variant of Forward: a failed delivery takes the loop's task down with the
\* forwarding task.
ForwardFailureEndsLoop ==
    /\ LoopSuspended
    /\ forwarder = "running"
    /\ output_rx # << >>
    /\ LET new_msg == transform(Head(output_rx))
       IN  IF new_msg = None
           THEN /\ output_rx' = Tail(output_rx)
                /\ UNCHANGED <<parent_rx, forwarder, pc, input_rx, cmd_rx, notifier,
                               output_tx, death_notifier, receiver>>
           ELSE IF parent_alive
                THEN /\ parent_rx' = Append(parent_rx, new_msg[1])
                     /\ output_rx' = Tail(output_rx)
                     /\ UNCHANGED <<forwarder, pc, input_rx, cmd_rx, notifier,
                                    output_tx, death_notifier, receiver>>
                ELSE /\ forwarder' = "done"
                     /\ output_rx' = << >>
                     /\ pc' = IF pc = "select" THEN "removed" ELSE pc
                     /\ DropTask
                     /\ UNCHANGED parent_rx
    /\ UNCHANGED <<message, borrowed, data, input_tx, burn_recipient, burn_notifier,
                   runtime_id, cmd, parent_alive, sent, handled, emitted, lost, calls>>

\* while let Some(msg) = output_rx.recv().await { transform; send or break }
Forward ==
    /\ LoopSuspended
    /\ forwarder = "running"
    /\ output_rx # << >>
    /\ LET new_msg == transform(Head(output_rx))
       IN  IF new_msg = None
           THEN /\ output_rx' = Tail(output_rx)
                /\ UNCHANGED <<parent_rx, forwarder>>
           ELSE IF parent_alive
                THEN /\ parent_rx' = Append(parent_rx, new_msg[1])
                     /\ output_rx' = Tail(output_rx)
                     /\ UNCHANGED forwarder
                ELSE /\ forwarder' = "done"
                     /\ output_rx' = << >>
                     /\ UNCHANGED parent_rx
    /\ UNCHANGED <<pc, message, borrowed, data, input_rx, input_tx, output_tx, cmd_rx,
                   notifier, burn_recipient, burn_notifier, runtime_id,
                   death_notifier, receiver, cmd, parent_alive, sent, handled,
                   emitted, lost, calls>>

\* recv() yields None: the Output channel is empty and its sender is gone.
ForwardClosed ==
    /\ LoopSuspended
    /\ forwarder = "running"
    /\ output_rx = << >>
    /\ ~output_tx
    /\ forwarder' = "done"
    /\ UNCHANGED <<pc, message, borrowed, data, input_rx, input_tx, output_rx,
                   output_tx, cmd_rx, notifier, burn_recipient, burn_notifier,
                   runtime_id, death_notifier, receiver, cmd, parent_rx,
                   parent_alive, sent, handled, emitted, lost, calls>>

\* ------------------------------------------- destroy callback and handle
\* Variant of Destroy: the callback sends whether or not the slot is Some.
DestroyAlways ==
    /\ LoopSuspended
    /\ burn_notifier
    /\ runtime_id' = None
    /\ burn_recipient' = IF burn_recipient = "empty" THEN "sent" ELSE burn_recipient
    /\ calls' = [calls EXCEPT !.burn = @ + 1]
    /\ UNCHANGED <<pc, message, borrowed, data, input_rx, input_tx, output_rx,
                   output_tx, cmd_rx, notifier, burn_notifier, death_notifier,
                   receiver, cmd, forwarder, parent_rx, parent_alive, sent,
                   handled, emitted, lost>>

\* Variant of Destroy: the callback reads the slot without taking from it.
DestroyNoTake ==
    /\ LoopSuspended
    /\ burn_notifier
    /\ IF runtime_id # None
       THEN /\ burn_recipient' = IF burn_recipient = "empty" THEN "sent"
                                 ELSE burn_recipient
            /\ calls' = [calls EXCEPT !.burn = @ + 1]
       ELSE /\ UNCHANGED calls
            /\ UNCHANGED burn_recipient
    /\ UNCHANGED <<pc, message, borrowed, data, input_rx, input_tx, output_rx,
                   output_tx, cmd_rx, notifier, burn_notifier, death_notifier,
                   receiver, cmd, forwarder, parent_rx, parent_alive, sent,
                   handled, emitted, lost, runtime_id>>

\* on_destroy: if let Some(id) = on_destroy_id.borrow_mut().take() { send(id) }
Destroy ==
    /\ LoopSuspended
    /\ burn_notifier
    /\ IF runtime_id # None
       THEN /\ runtime_id' = None
            /\ burn_recipient' = IF burn_recipient = "empty" THEN "sent"
                                 ELSE burn_recipient
            /\ calls' = [calls EXCEPT !.burn = @ + 1]
       ELSE /\ UNCHANGED calls
            /\ UNCHANGED <<runtime_id, burn_recipient>>
    /\ UNCHANGED <<pc, message, borrowed, data, input_rx, input_tx, output_rx,
                   output_tx, cmd_rx, notifier, burn_notifier, death_notifier,
                   receiver, cmd, forwarder, parent_rx, parent_alive, sent,
                   handled, emitted, lost>>

\* The callback is dropped without having sent: the one-shot's sender goes
\* with it, and the recipient resolves to Err.
DiscardCallback ==
    /\ pc = "select"
    /\ burn_notifier
    /\ burn_notifier' = FALSE
    /\ burn_recipient' = IF burn_recipient = "empty" THEN "closed" ELSE burn_recipient
    /\ UNCHANGED <<pc, message, borrowed, data, input_rx, input_tx, output_rx,
                   output_tx, cmd_rx, notifier, runtime_id, death_notifier,
                   receiver, cmd, forwarder, parent_rx, parent_alive, sent,
                   handled, emitted, lost, calls>>

\* Variant of Cancel: the handle sends the identity on the one-shot channel.
CancelSends ==
    /\ LoopSuspended
    /\ IF runtime_id # None
       THEN /\ runtime_id' = None
            /\ burn_recipient' = IF burn_recipient = "empty" THEN "sent"
                                 ELSE burn_recipient
            /\ calls' = [calls EXCEPT !.burn = @ + 1]
       ELSE /\ UNCHANGED calls
            /\ UNCHANGED <<runtime_id, burn_recipient>>
    /\ UNCHANGED <<pc, message, borrowed, data, input_rx, input_tx, output_rx,
                   output_tx, cmd_rx, notifier, burn_notifier, death_notifier,
                   receiver, cmd, forwarder, parent_rx, parent_alive, sent,
                   handled, emitted, lost>>

\* The handle drops the runtime manually: it takes the identity out of
\* runtime_id and removes the task from the main context.  The handle is
\* given runtime_id only; the one-shot's sender is moved into the destroy
\* callback, so the handle has nothing to send an identity with.
Cancel ==
    /\ LoopSuspended
    /\ IF runtime_id # None
       THEN /\ runtime_id' = None
            /\ IF pc = "select"
               THEN /\ pc' = "removed"
                    /\ DropTask
               ELSE UNCHANGED <<pc, input_rx, cmd_rx, notifier, output_tx,
                                death_notifier, receiver>>
       ELSE UNCHANGED <<runtime_id, pc, input_rx, cmd_rx, notifier, output_tx,
                        death_notifier, receiver>>
    /\ UNCHANGED <<message, borrowed, data, input_tx, output_rx, burn_recipient,
                   burn_notifier, cmd, forwarder, parent_rx, parent_alive, sent,
                   handled, emitted, lost, calls>>

\* ------------------------------------------------------------ the callers
\* A caller sends an Input with the handle's sender or a clone of it; the
\* send fails quietly once the loop's receiver is gone.
SendInput(m, limit) ==
    /\ LoopSuspended
    /\ input_tx
    /\ Len(sent) < limit
    /\ m = "Fetch" => Claimed < MaxRecv
    /\ IF LoopAlive
       THEN /\ sent' = Append(sent, m)
            /\ input_rx' = Append(input_rx, m)
            /\ UNCHANGED lost
       ELSE /\ lost' = TRUE
            /\ UNCHANGED <<sent, input_rx>>
    /\ UNCHANGED <<pc, message, borrowed, data, input_tx, output_rx, output_tx,
                   cmd_rx, notifier, burn_recipient, burn_notifier, runtime_id,
                   death_notifier, receiver, cmd, forwarder, parent_rx,
                   parent_alive, handled, emitted, calls>>

\* The callers drop the handle's Input sender and every clone they hold.
DropInputSender ==
    /\ pc = "select"
    /\ input_tx
    /\ input_tx' = FALSE
    /\ UNCHANGED <<pc, message, borrowed, data, input_rx, output_rx, output_tx,
                   cmd_rx, notifier, burn_recipient, burn_notifier, runtime_id,
                   death_notifier, receiver, cmd, forwarder, parent_rx,
                   parent_alive, sent, handled, emitted, lost, calls>>

\* A caller starts a send on the notifier: it blocks until the loop receives.
NotifySend ==
    /\ pc = "select"
    /\ ~notifier
    /\ notifier' = TRUE
    /\ UNCHANGED <<pc, message, borrowed, data, input_rx, input_tx, output_rx,
                   output_tx, cmd_rx, burn_recipient, burn_notifier, runtime_id,
                   death_notifier, receiver, cmd, forwarder, parent_rx,
                   parent_alive, sent, handled, emitted, lost, calls>>

\* The parent's receiver goes away.
DropParent ==
    /\ LoopSuspended
    /\ forwarder = "running"
    /\ parent_alive
    /\ parent_alive' = FALSE
    /\ UNCHANGED <<pc, message, borrowed, data, input_rx, input_tx, output_rx,
                   output_tx, cmd_rx, notifier, burn_recipient, burn_notifier,
                   runtime_id, death_notifier, receiver, cmd, forwarder, parent_rx,
                   sent, handled, emitted, lost, calls>>

\* ------------------------------------------------------------ the commands
\* Variant of CmdReport: the result is queued though the receiver is gone.
CmdReportQueues(c) ==
    /\ cmd[c] = "running"
    /\ cmd' = [cmd EXCEPT ![c] = "done"]
    /\ cmd_rx' = Append(cmd_rx, "Fetched")
    /\ UNCHANGED <<pc, message, borrowed, data, input_rx, input_tx, output_rx,
                   output_tx, notifier, burn_recipient, burn_notifier, runtime_id,
                   death_notifier, receiver, forwarder, parent_rx, parent_alive,
                   sent, handled, emitted, lost, calls>>

\* A command reports its result on its clone of cmd_tx and ends; the result
\* is dropped when the loop's receiver is gone.
CmdReport(c) ==
    /\ cmd[c] = "running"
    /\ cmd' = [cmd EXCEPT ![c] = "done"]
    /\ cmd_rx' = IF LoopAlive THEN Append(cmd_rx, "Fetched") ELSE cmd_rx
    /\ UNCHANGED <<pc, message, borrowed, data, input_rx, input_tx, output_rx,
                   output_tx, notifier, burn_recipient, burn_notifier, runtime_id,
                   death_notifier, receiver, forwarder, parent_rx, parent_alive,
                   sent, handled, emitted, lost, calls>>

\* A command clones a receiver it holds.
CloneReceiver(r) ==
    /\ r # 0
    /\ receiver[r] = "held"
    /\ Claimed < MaxRecv
    /\ receiver' = Clone(receiver, r, Fresh(receiver))
    /\ UNCHANGED <<pc, message, borrowed, data, input_rx, input_tx, output_rx,
                   output_tx, cmd_rx, notifier, burn_recipient, burn_notifier,
                   runtime_id, death_notifier, cmd, forwarder, parent_rx,
                   parent_alive, sent, handled, emitted, lost, calls>>

\* A command calls wait() on a receiver it holds: recv() is awaited.
Wait(r) ==
    /\ r # 0
    /\ receiver[r] = "held"
    /\ receiver' = [receiver EXCEPT ![r] = "waiting"]
    /\ UNCHANGED <<pc, message, borrowed, data, input_rx, input_tx, output_rx,
                   output_tx, cmd_rx, notifier, burn_recipient, burn_notifier,
                   runtime_id, death_notifier, cmd, forwarder, parent_rx,
                   parent_alive, sent, handled, emitted, lost, calls>>

\* The awaited recv() returns and wait() resolves, consuming the receiver.
WaitResolve(r) ==
    /\ receiver[r] = "waiting"
    /\ WaitReady(r)
    /\ receiver' = Resolved(receiver, r)
    /\ calls' = [calls EXCEPT !.wake[r] = @ + 1]
    /\ UNCHANGED <<pc, message, borrowed, data, input_rx, input_tx, output_rx,
                   output_tx, cmd_rx, notifier, burn_recipient, burn_notifier,
                   runtime_id, death_notifier, cmd, forwarder, parent_rx,
                   parent_alive, sent, handled, emitted, lost>>

\* ------------------------------------------------------- the specification
Next ==
    \/ SelectInput
    \/ BodyInput
    \/ SelectCmd
    \/ BodyCmd
    \/ SelectNotifier
    \/ BodyNotifier
    \/ SelectBurn
    \/ BurnShutdown
    \/ BurnBroadcast
    \/ BurnRemove
    \/ Forward
    \/ ForwardClosed
    \/ Destroy
    \/ DiscardCallback
    \/ Cancel
    \/ \E m \in Inputs : SendInput(m, MaxSends)
    \/ DropInputSender
    \/ NotifySend
    \/ DropParent
    \/ \E c \in Cmds : CmdReport(c)
    \/ \E r \in Receivers : CloneReceiver(r)
    \/ \E r \in Receivers : Wait(r)
    \/ \E r \in Receivers : WaitResolve(r)

Spec == Init /\ [][Next]_vars

\* The flow of messages: the whole of Next but for what the holders of the
\* shutdown receivers do with them (clone, wait), with one more Input sent.
FlowNext ==
    \/ SelectInput
    \/ BodyInput
    \/ SelectCmd
    \/ BodyCmd
    \/ SelectNotifier
    \/ BodyNotifier
    \/ SelectBurn
    \/ BurnShutdown
    \/ BurnBroadcast
    \/ BurnRemove
    \/ Forward
    \/ ForwardClosed
    \/ Destroy
    \/ DiscardCallback
    \/ Cancel
    \/ \E m \in Inputs : SendInput(m, MaxFlowSends)
    \/ DropInputSender
    \/ NotifySend
    \/ DropParent
    \/ \E c \in Cmds : CmdReport(c)

FlowSpec == Init /\ [][FlowNext]_vars

\* The loop under fair scheduling: FlowNext with the Inputs of Next.
FairNext ==
    \/ SelectInput
    \/ BodyInput
    \/ SelectCmd
    \/ BodyCmd
    \/ SelectNotifier
    \/ BodyNotifier
    \/ SelectBurn
    \/ BurnShutdown
    \/ BurnBroadcast
    \/ BurnRemove
    \/ Forward
    \/ ForwardClosed
    \/ Destroy
    \/ DiscardCallback
    \/ Cancel
    \/ \E m \in Inputs : SendInput(m, MaxSends)
    \/ DropInputSender
    \/ NotifySend
    \/ DropParent
    \/ \E c \in Cmds : CmdReport(c)

\* The main context polls the loop's task when it is woken, and a branch
\* body has no await, so a body that started runs to its end (weak
\* fairness).  futures::select! picks among the ready branches at random,
\* so a branch that is ready at infinitely many polls is picked at one of
\* them (strong fairness of the burn branch).
Fairness ==
    /\ SF_vars(SelectBurn)
    /\ WF_vars(BodyInput)
    /\ WF_vars(BodyCmd)
    /\ WF_vars(BodyNotifier)
    /\ WF_vars(BurnShutdown)
    /\ WF_vars(BurnBroadcast)
    /\ WF_vars(BurnRemove)

FairSpec == Init /\ [][FairNext]_vars /\ Fairness

\* A component from FactoryBuilder::new on: the model's own messages of
\* init_model, launch, and the flow of messages of FlowNext.
BuildNext ==
    \/ \E ins \in InitInputs, outs \in InitOutputs : New(ins, outs)
    \/ Launch
    \/ SelectInput
    \/ BodyInput
    \/ SelectCmd
    \/ BodyCmd
    \/ SelectNotifier
    \/ BodyNotifier
    \/ SelectBurn
    \/ BurnShutdown
    \/ BurnBroadcast
    \/ BurnRemove
    \/ Forward
    \/ ForwardClosed
    \/ Destroy
    \/ \E m \in Inputs : SendInput(m, MaxFlowSends)
    \/ NotifySend
    \/ \E c \in Cmds : CmdReport(c)

BuildSpec == BuildInit /\ [][BuildNext]_vars

TypeOK ==
    /\ pc \in {"new", "built", "select", "input", "cmd", "notifier", "burn_shutdown",
               "burn_broadcast", "burn_remove", "terminated", "removed"}
    /\ borrowed \in 0 .. 1
    /\ notifier \in BOOLEAN
    /\ burn_recipient \in {"empty", "sent", "closed", "taken"}
    /\ death_notifier \in {"alive", "shutdown", "dropped"}
    /\ forwarder \in {"unspawned", "running", "done"}
    /\ Len(sent) <= MaxSends \/ Len(sent) <= MaxFlowSends


\* ----------------------------------------------------------------- claims
\* A step of the destroy callback, and a step of the handle's cancel.
DestroyStep == Destroy
CancelStep == Cancel

\* C1: the model's shutdown capability is invoked at most once, and a
\* cancel() or a destruction that finds the slot already taken changes
\* nothing: it invokes nothing, sends nothing and removes nothing.
C1_ShutdownAtMostOnce ==
    /\ [](calls.shutdown <= 1)
    /\ [][(runtime_id = None /\ (DestroyStep \/ CancelStep)) => UNCHANGED vars]_vars

\* C1 witness: the root was destroyed, branch (d) ran, and cancel() can be
\* called on the slot the callback emptied.
C1_Witness ==
    /\ calls.shutdown = 1
    /\ calls.burn = 1
    /\ runtime_id = None
    /\ pc = "terminated"
    /\ ENABLED Cancel

\* C2 as stated: a cancel() that finds the slot Some delivers the identity
\* on the one-shot channel, so that branch (d) runs.
C2_CancelDeliversIdentity ==
    [][(CancelStep /\ runtime_id # None) => burn_recipient' = "sent"]_vars

\* C2 amended: a cancel() that finds the slot Some while the loop is running
\* takes the identity and removes the loop's task; nothing is put on the
\* one-shot channel, branch (d) does not run for it (no shutdown capability,
\* no shutdown() of the broadcast), and death_notifier is dropped with the
\* task.
C2_CancelRemovesTask ==
    /\ [][(CancelStep /\ runtime_id # None /\ pc = "select") =>
            /\ runtime_id' = None
            /\ pc' = "removed"
            /\ burn_recipient' = burn_recipient
            /\ calls'.burn = calls.burn
            /\ calls'.shutdown = calls.shutdown
            /\ death_notifier' = "dropped"]_vars
    /\ [](pc = "removed" =>
            /\ calls.shutdown = 0
            /\ calls.burn = 0
            /\ burn_recipient \in {"empty", "closed"}
            /\ death_notifier = "dropped")
    /\ [][pc = "removed" => pc' = "removed"]_vars

\* C2 witness: cancel() removed the running task, and a command's wait()
\* resolved although the shutdown capability was never invoked.
C2_Witness ==
    /\ pc = "removed"
    /\ runtime_id = None
    /\ calls.shutdown = 0
    /\ \E r \in Receivers : receiver[r] = "woken"

\* Both an Input and a CommandOutput are ready at the select.
BothReady == pc = "select" /\ input_rx # << >> /\ cmd_rx # << >>

\* C3 as stated: with an Input and a CommandOutput both ready, the Input
\* branch is the one that runs.
C3_InputFirst ==
    [][(BothReady /\ pc' \in {"input", "cmd"}) => pc' = "input"]_vars

\* C3 amended: with an Input and a CommandOutput both ready, the select runs
\* one ready branch with no fixed priority; it takes the oldest message of
\* that branch's channel and leaves the other channel's messages queued.
C3_OneReadyBranch ==
    [][(BothReady /\ pc' # "select") =>
          \/ /\ pc' = "input"
             /\ message' = Some(Head(input_rx))
             /\ input_rx' = Tail(input_rx)
             /\ cmd_rx' = cmd_rx
          \/ /\ pc' = "cmd"
             /\ message' = Some(Head(cmd_rx))
             /\ cmd_rx' = Tail(cmd_rx)
             /\ input_rx' = input_rx
          \/ /\ pc' \in {"notifier", "burn_shutdown"}
             /\ input_rx' = input_rx
             /\ cmd_rx' = cmd_rx
          \/ pc' = "removed"]_vars

\* C3 witness: the CommandOutput branch is running while the Input that was
\* ready at the same select is still queued.
C3_Witness ==
    /\ pc = "cmd"
    /\ input_rx # << >>


\* The clones of death_recipient: the commands' receivers and their clones.
Clones == Receivers \ {0}

\* C4: once shutdown() has been invoked, the wait() of every receiver that
\* is waiting can resolve at once, whether the receiver was cloned before or
\* after the invocation; no receiver's wait() resolves more than once, and a
\* receiver is consumed exactly when its wait() has resolved once.
C4_EveryCloneWakesOnce ==
    \A r \in Clones :
        /\ (death_notifier = "shutdown" /\ receiver[r] = "waiting")
              => ENABLED WaitResolve(r)
        /\ calls.wake[r] <= 1
        /\ (receiver[r] = "woken") <=> (calls.wake[r] = 1)

\* C4 witness: shutdown() was invoked and every one of the clones, the
\* loop's and the commands' own, has woken once.
C4_Witness ==
    /\ death_notifier = "shutdown"
    /\ \A r \in Clones : receiver[r] = "woken" /\ calls.wake[r] = 1

\* C5: when death_notifier has been dropped without shutdown(), the wait()
\* of every waiting receiver can resolve; and a loop task that is removed
\* without running branch (d) has dropped death_notifier.
C5_OrphanResolves ==
    /\ \A r \in Clones :
          (death_notifier = "dropped" /\ receiver[r] = "waiting")
             => ENABLED WaitResolve(r)
    /\ (pc = "removed") => (death_notifier = "dropped" /\ calls.shutdown = 0)

\* C5 witness: the task was removed, the shutdown capability never ran, and
\* the wait() of the command's receiver has resolved.
C5_Witness ==
    /\ pc = "removed"
    /\ death_notifier = "dropped"
    /\ cmd[1] = "running"
    /\ receiver[1] = "woken"

\* What the parent is to receive for a sequence of Outputs.
RECURSIVE Forwarded(_)
Forwarded(outs) ==
    IF outs = << >> THEN << >>
    ELSE transform(Head(outs)) \o Forwarded(Tail(outs))

\* The Outputs the forwarding task has taken from the channel so far.
Taken == SubSeq(emitted, 1, Len(emitted) - Len(output_rx))

\* C6: the parent has received exactly the transformed Outputs the transform
\* maps to Some, once each and in the order of emission: while the forwarding
\* task runs, those of the Outputs it has taken; when it ended with the
\* parent alive, those of all Outputs; when it ended on a failed delivery,
\* those of a prefix of the Outputs.
C6_ForwardsSomeInOrder ==
    /\ forwarder = "running" => parent_rx = Forwarded(Taken)
    /\ (forwarder = "done" /\ parent_alive) => parent_rx = Forwarded(emitted)
    /\ \E k \in 0 .. Len(emitted) : parent_rx = Forwarded(SubSeq(emitted, 1, k))

\* C6 witness: the model emitted A = ValueChanged(1) and then
\* B = ValueChanged(0), both were taken, and the parent holds X(1) alone.
C6_Witness ==
    /\ emitted = <<ValueChanged(1), ValueChanged(0)>>
    /\ output_rx = << >>
    /\ forwarder = "running"
    /\ parent_rx = <<ParentX(1)>>

\* C7: the loop holds at most one borrow of the model, it holds one exactly
\* while a branch body runs, and none while it waits in the select.
C7_OneBranchAtATime ==
    /\ borrowed <= 1
    /\ (pc \in {"input", "cmd", "notifier", "burn_shutdown", "burn_broadcast",
                "burn_remove"}) <=> (borrowed = 1)
    /\ LoopSuspended => borrowed = 0

\* C7 witness: a second Input is handled, the first branch having released
\* the model.
C7_Witness ==
    /\ pc = "input"
    /\ borrowed = 1
    /\ Len(handled) = 1


\* The model and the Outputs that result from giving the Inputs msgs, one
\* after the other, to update_with_view, starting from value.
RECURSIVE Replay(_, _)
Replay(value, msgs) ==
    IF msgs = << >> THEN [data |-> value, out |-> << >>]
    ELSE LET r == update_with_view(value, Head(msgs))
             rest == Replay(r.data, Tail(msgs))
         IN  [data |-> rest.data, out |-> r.out \o rest.out]

\* C8: the Inputs given to update_with_view are the Inputs the channel
\* accepted, in the order sent, each once: while the loop lives, handled,
\* then the Input in hand, then the queue, is what was sent.  As long as no
\* command has reported, model and Outputs are those of the handled Inputs;
\* after Increment, Increment, Decrement the Outputs are ValueChanged(1),
\* ValueChanged(2), ValueChanged(1), the value is 1 and no command or
\* CommandOutput exists.
C8_InputsInOrder ==
    /\ LoopAlive => sent = handled \o InHand \o input_rx
    /\ Len(handled) <= Len(sent) /\ handled = SubSeq(sent, 1, Len(handled))
    /\ (\A c \in Cmds : cmd[c] # "done") =>
          /\ data = Replay(InitModel, handled).data
          /\ emitted = Replay(InitModel, handled).out
    /\ handled = <<"Increment", "Increment", "Decrement">> =>
          /\ emitted = <<ValueChanged(1), ValueChanged(2), ValueChanged(1)>>
          /\ data.value = 1
          /\ data.fetched = 0
          /\ cmd_rx = << >>
          /\ \A c \in Cmds : cmd[c] = "none"

\* C8 witness: Increment, Increment, Decrement were sent and handled with no
\* destruction, the value is 1 and the three Outputs reached the parent.
C8_Witness ==
    /\ pc = "select"
    /\ sent = <<"Increment", "Increment", "Decrement">>
    /\ handled = sent
    /\ data.value = 1
    /\ parent_rx = <<ParentX(1), ParentX(2), ParentX(1)>>
    /\ runtime_id = Some("id")

\* An identity is sent on the one-shot channel.
BurnSend == calls'.burn # calls.burn

\* C9: the slot is Some until the first destroy callback or cancel() that
\* runs, which takes it, and None ever after; only those two change it; an
\* identity is sent on the one-shot channel only by a destroy callback that
\* found the slot Some and took from it, hence at most once.
C9_SlotTakenOnce ==
    /\ runtime_id = Some("id")
    /\ [][(DestroyStep \/ CancelStep) => runtime_id' = None]_vars
    /\ [][runtime_id = None => runtime_id' = None]_vars
    /\ [][runtime_id' # runtime_id => (DestroyStep \/ CancelStep)]_vars
    /\ [][BurnSend => (DestroyStep /\ runtime_id # None /\ runtime_id' = None)]_vars
    /\ [](calls.burn <= 1)

\* C9 witness: the destroy callback took the identity and sent it, the loop
\* has not yet received it, and cancel() can be called on the None slot.
C9_Witness ==
    /\ runtime_id = None
    /\ calls.burn = 1
    /\ pc = "select"
    /\ burn_recipient = "sent"
    /\ ENABLED Cancel

\* C10: the loop goes from Running to ShuttingDown only by taking the
\* one-shot's result, from ShuttingDown only to Terminated, and returns only
\* at the end of branch (d); a Running loop otherwise ends only by the
\* handle's removal of its task.  Once the loop has returned it stays
\* returned: no branch runs, and model, Outputs and the count of shutdown
\* invocations no longer change, whatever is sent.
C10_TerminatedOnlyByBurn ==
    /\ [][LoopState' # LoopState =>
            \/ /\ LoopState = "Running" /\ LoopState' = "ShuttingDown"
               /\ pc = "select"
               /\ burn_recipient \in {"sent", "closed"}
               /\ burn_recipient' = "taken"
            \/ /\ LoopState = "ShuttingDown" /\ LoopState' = "Terminated"
               /\ pc = "burn_remove"
               /\ calls.shutdown = 1
            \/ /\ LoopState = "Running" /\ LoopState' = "Removed"
               /\ CancelStep]_vars
    /\ [][pc = "terminated" =>
            /\ pc' = "terminated"
            /\ UNCHANGED <<data, handled, emitted, borrowed, message>>
            /\ calls'.shutdown = calls.shutdown]_vars
    /\ [](pc = "terminated" => (input_rx = << >> /\ cmd_rx = << >> /\ ~notifier))

\* C10 witness: the loop has returned, an Input was sent afterwards, and the
\* command it had spawned has reported a result that no branch ever handled.
C10_Witness ==
    /\ pc = "terminated"
    /\ lost
    /\ cmd[1] = "done"
    /\ handled = <<"Fetch">>
    /\ data.fetched = 0

\* C11: once the destroy callback has found the slot Some and sent the
\* identity, the fairly scheduled loop runs the burn branch and returns,
\* however many Input, CommandOutput and notifier events arrive meanwhile.
C11_DestroyLeadsToTerminated ==
    (calls.burn = 1) ~> (pc = "terminated")

\* C11 witness: the loop has returned after a destruction that delivered the
\* identity, having handled Inputs and redrawn on the way.
C11_Witness ==
    /\ pc = "terminated"
    /\ calls.burn = 1
    /\ calls.remove = 1
    /\ handled # << >>
    /\ data.fetched = 1

\* C12: inside the burn branch the model's shutdown comes first, the
\* broadcast second, the removal of the delivered identity third and the
\* return last: the broadcast is fired only after shutdown was invoked, the
\* identity is removed only after the broadcast, in the step that returns,
\* and a loop that returned has done both; so a receiver that saw the
\* broadcast saw it after the shutdown capability was invoked.
C12_BurnBranchOrder ==
    /\ pc = "burn_shutdown" => (calls.shutdown = 0 /\ death_notifier = "alive")
    /\ pc = "burn_broadcast" => (calls.shutdown = 1 /\ death_notifier = "alive")
    /\ pc = "burn_remove" => (calls.shutdown = 1 /\ death_notifier = "shutdown")
    /\ pc \in {"burn_shutdown", "burn_broadcast", "burn_remove"} => calls.remove = 0
    /\ pc = "terminated" => (calls.shutdown = 1 /\ death_notifier = "shutdown")
    /\ death_notifier = "shutdown" => calls.shutdown = 1
    /\ calls.remove = 1 => (pc = "terminated" /\ death_notifier = "shutdown")
    /\ \A r \in Clones :
          (calls.wake[r] = 1 /\ death_notifier = "shutdown") => calls.shutdown = 1

\* C12 witness: a command has seen the broadcast while the loop, shutdown
\* done, has yet to remove the delivered identity and return.
C12_Witness ==
    /\ pc = "burn_remove"
    /\ message = Some("id")
    /\ cmd[1] = "running"
    /\ receiver[1] = "woken"
    /\ calls.shutdown = 1
    /\ calls.remove = 0

\* The forwarding task ended on a failed delivery: it is over while the
\* loop still holds the Output sender, so the channel was not closed.
DeliveryFailed == forwarder = "done" /\ output_tx

\* C13: the step in which the forwarding task ends changes nothing of the
\* loop; after a failed delivery the Running loop still takes every ready
\* Input, CommandOutput and notifier event, and an Input branch that runs
\* then ends with the Input handled and its Outputs sent and dropped.
C13_FailedDeliveryEndsForwarderOnly ==
    /\ [][forwarder' # forwarder =>
            UNCHANGED <<pc, message, borrowed, data, input_rx, cmd_rx, notifier,
                        output_tx, burn_recipient, death_notifier, receiver, cmd,
                        handled, emitted, calls>>]_vars
    /\ []((DeliveryFailed /\ pc = "select") =>
            /\ LoopState = "Running"
            /\ input_rx # << >> => ENABLED SelectInput
            /\ cmd_rx # << >> => ENABLED SelectCmd
            /\ notifier => ENABLED SelectNotifier)
    /\ []((DeliveryFailed /\ pc \in {"input", "cmd", "notifier"}) =>
            ENABLED (BodyInput \/ BodyCmd \/ BodyNotifier))
    /\ [][(DeliveryFailed /\ pc = "input" /\ pc' # pc) =>
            /\ pc' = "select"
            /\ handled' = handled \o message
            /\ message # None =>
                  emitted' = emitted \o update_with_view(data, message[1]).out
            /\ UNCHANGED <<output_rx, forwarder, output_tx>>]_vars

\* C13 witness: the parent is gone, the forwarding task ended on the failed
\* delivery that followed X(1), and the loop is in the Input branch, which
\* it entered afterwards.
C13_Witness ==
    /\ DeliveryFailed
    /\ ~parent_alive
    /\ parent_rx = <<ParentX(1)>>
    /\ pc = "input"
    /\ message = Some("Decrement")
    /\ data.value = 2

\* The commands spawned so far, and those spawned by the step.
Spawned == {c \in Cmds : cmd[c] # "none"}
SpawnedNow == {c \in Cmds : cmd[c] = "none" /\ cmd'[c] # "none"}

\* The handled Inputs for which update_with_view returned a command.
Requests ==
    {i \in DOMAIN handled : update_with_view(InitModel, handled[i]).command # None}

\* C14: a step spawns a command only as the end of an Input branch whose
\* update_with_view returned a command, and then exactly one, which gets a
\* receiver number of its own holding a clone of death_recipient; there
\* are as many commands as update_with_view calls that returned one; and a
\* running command can always report on its clone of cmd_tx.
C14_SpawnOnlyByInputBranch ==
    /\ [][SpawnedNow # {} =>
            /\ pc = "input" /\ pc' = "select"
            /\ message # None
            /\ update_with_view(data, message[1]).command # None
            /\ Cardinality(SpawnedNow) = 1
            /\ \A c \in SpawnedNow :
                  /\ receiver[c] = "none"
                  /\ receiver'[c] = receiver[0]
                  /\ cmd'[c] = "running"
                  /\ \A r \in Receivers \ {c} : receiver'[r] = receiver[r]]_vars
    /\ [][(pc = "input" /\ pc' = "select" /\ message # None
            /\ update_with_view(data, message[1]).command # None) =>
              Cardinality(SpawnedNow) = 1]_vars
    /\ [](Cardinality(Spawned) = Cardinality(Requests))
    /\ [](\A c \in Spawned : receiver[c] # "none")
    /\ [](\A c \in Cmds : cmd[c] = "running" => ENABLED CmdReport(c))

\* C14 witness: two Inputs asked for a command and two commands run, each
\* holding its own clone; the result of neither has been handled.
C14_Witness ==
    /\ handled = <<"Fetch", "Fetch">>
    /\ cmd[1] = "running"
    /\ cmd[2] = "running"
    /\ receiver[1] = "held"
    /\ receiver[2] = "waiting"
    /\ pc = "select"

\* C15: until launch has run no task exists and nothing is handled or
\* forwarded: what init_model sent lies in the two channels, and launch
\* leaves it there; from then on the Inputs are handled in the order sent
\* and the Outputs forwarded in the order emitted, those of init_model
\* first, since every later send queues behind them.
C15_InitMessagesKeptInOrder ==
    /\ [](pc \in {"new", "built"} =>
            /\ forwarder = "unspawned"
            /\ handled = << >> /\ parent_rx = << >> /\ data = InitModel
            /\ Spawned = {}
            /\ input_rx = sent /\ output_rx = emitted
            /\ ~ENABLED (SelectInput \/ SelectCmd \/ SelectNotifier \/ SelectBurn
                          \/ Forward \/ ForwardClosed))
    /\ [][(pc = "built" /\ pc' # pc) =>
            /\ pc' = "select" /\ forwarder' = "running"
            /\ UNCHANGED <<input_rx, output_rx, sent, emitted, handled, parent_rx>>]_vars
    /\ [][(pc \notin {"new", "built"}) =>
            /\ Len(sent') >= Len(sent) /\ sent = SubSeq(sent', 1, Len(sent))
            /\ Len(emitted') >= Len(emitted)
            /\ emitted = SubSeq(emitted', 1, Len(emitted))]_vars
    /\ [](LoopAlive => sent = handled \o InHand \o input_rx)
    /\ [](forwarder = "running" => parent_rx = Forwarded(Taken))
    /\ [](forwarder = "unspawned" => pc \in {"new", "built"})

\* C15 witness: init_model sent two Inputs and emitted ValueChanged(100) and
\* ValueChanged(0); after launch a Fetch was sent; the three Inputs were
\* handled in that order and the parent got X(100) ahead of X(1).
C15_Witness ==
    /\ handled = <<"Increment", "Decrement", "Fetch">>
    /\ emitted = <<ValueChanged(100), ValueChanged(0), ValueChanged(1), ValueChanged(0)>>
    /\ parent_rx = <<ParentX(100), ParentX(1)>>
    /\ output_rx = << >>
    /\ pc = "select"

ReportedNow == {c \in Cmds : cmd[c] = "running" /\ cmd'[c] = "done"}

\* C17: a command that is still running when the loop's task is gone can
\* report whenever it likes, whether or not it has looked at its receiver;
\* the report changes nothing but the command, and once the task is gone
\* the CommandOutput queue stays empty and the model is never touched again.
C17_LateResultDiscarded ==
    /\ [](\A c \in Cmds :
            (~LoopAlive /\ cmd[c] = "running") => ENABLED CmdReport(c))
    /\ [][(~LoopAlive /\ ReportedNow # {}) =>
            UNCHANGED <<pc, message, borrowed, data, input_rx, output_rx, cmd_rx,
                        handled, emitted, receiver, death_notifier, calls>>]_vars
    /\ [](~LoopAlive => cmd_rx = << >>)
    /\ [][~LoopAlive => (~LoopAlive' /\ data' = data /\ borrowed' = borrowed)]_vars
    /\ [](data.fetched <= Cardinality({c \in Cmds : cmd[c] = "done"}))

\* C17 witness: the loop has returned; the first command reported though it
\* never waited on its receiver, the model never saw a result, and the
\* second command is still running.
C17_Witness ==
    /\ pc = "terminated"
    /\ cmd[1] = "done"
    /\ receiver[1] = "held"
    /\ cmd[2] = "running"
    /\ data.fetched = 0
    /\ ~lost

\* C18: while the loop is Running the shutdown sender is alive and
\* unfired, so no wait() of a clone has resolved or can resolve; the sender
\* changes only in a step that leaves the loop ShuttingDown, Terminated or
\* Removed, and a wait() resolves only in such a state.
C18_NoWakeWhileRunning ==
    /\ [](LoopState = "Running" =>
            /\ death_notifier = "alive"
            /\ \A r \in Clones :
                  /\ receiver[r] \in {"none", "held", "waiting"}
                  /\ calls.wake[r] = 0
                  /\ ~ENABLED WaitResolve(r))
    /\ [][death_notifier' # death_notifier =>
            \/ pc = "burn_broadcast" /\ death_notifier' = "shutdown"
            \/ LoopAlive /\ ~LoopAlive' /\ death_notifier' = "dropped"]_vars
    /\ [][calls'.wake # calls.wake =>
            LoopState \in {"ShuttingDown", "Terminated", "Removed"}]_vars

\* C18 witness: a command and a clone it made both wait on their receivers
\* while the Running loop has gone on to handle a later Input.
C18_Witness ==
    /\ pc = "select"
    /\ handled = <<"Fetch", "Increment">>
    /\ cmd[1] = "running"
    /\ receiver[1] = "waiting"
    /\ receiver[2] = "waiting"
    /\ death_notifier = "alive"

\* C19: from launch until its task is gone the loop holds an Input sender
\* and the CommandOutput sender, so neither channel is closed whatever the
\* callers drop and however many commands have ended; every Input branch
\* and every CommandOutput branch the select enters has a message in hand.
C19_ChannelsStayOpen ==
    /\ [](LoopState \in {"Running", "ShuttingDown"} =>
            /\ InputSenders >= 1
            /\ CmdSenders >= 1
            /\ ~InputClosed
            /\ ~CmdClosed)
    /\ [](pc \in {"input", "cmd"} => message # None)
    /\ [](pc = "select" =>
            /\ ENABLED SelectInput <=> input_rx # << >>
            /\ ENABLED SelectCmd <=> cmd_rx # << >>)

\* C19 witness: the callers have dropped their Input senders and the only
\* command has ended; both queues are empty and the loop, still Running,
\* waits in the select with no branch ready.
C19_Witness ==
    /\ pc = "select"
    /\ ~input_tx
    /\ input_rx = << >>
    /\ cmd_rx = << >>
    /\ cmd[1] = "done"
    /\ data.fetched = 1
    /\ ReadySet = {}

\* C20: a one-shot closed by the drop of its unused sender makes the burn
\* branch ready, and the select that takes it enters the branch with Err in
\* hand; the branch then invokes shutdown once, fires the broadcast and
\* returns without removing an identity.  The loop removes an identity only
\* in the branch that holds the one the destroy callback sent.
C20_ClosedOneShotBurns ==
    /\ []((pc = "select" /\ burn_recipient = "closed") => ENABLED SelectBurn)
    /\ [][(burn_recipient = "closed" /\ burn_recipient' # burn_recipient) =>
            /\ burn_recipient' = "taken"
            /\ pc' = "burn_shutdown"
            /\ message' = None]_vars
    /\ []((pc \in {"burn_shutdown", "burn_broadcast", "burn_remove"}) =>
            (message = None <=> calls.burn = 0))
    /\ [][calls'.remove # calls.remove =>
            /\ message = Some("id")
            /\ calls.burn = 1
            /\ calls.remove = 0 /\ calls'.remove = 1]_vars
    /\ [](pc = "terminated" =>
            /\ calls.shutdown = 1
            /\ death_notifier = "shutdown"
            /\ calls.remove = calls.burn)

\* C20 witness: the callback was discarded unfired and the loop has
\* returned: shutdown was invoked, a command saw the broadcast, and the
\* identity, never delivered, is still in the slot and was not removed.
C20_Witness ==
    /\ pc = "terminated"
    /\ ~burn_notifier
    /\ calls.burn = 0
    /\ calls.shutdown = 1
    /\ calls.remove = 0
    /\ runtime_id = Some("id")
    /\ receiver[1] = "woken"

====
